---- MODULE Spec2Model ----
(***************************************************************************)
(* A model of the bencode codec: Marshal (src/encode.go) and Unmarshal     *)
(* (src/unnamed/part_007, the []byte decoder with the two-pass             *)
(* validate-then-commit scheme).                                           *)
(*                                                                         *)
(* Bytes are their numeric codes; a byte slice or a Go string is a         *)
(* sequence of codes.  Offsets are zero-based as in the source.            *)
(***************************************************************************)
EXTENDS Integers, Sequences, FiniteSets, TLC

\* ------------------------------------------------------------------ bytes

\* Readable literals: B(<<"d","1",":","x","e">>) is the byte slice "d1:xe".
ByteOf ==
  ("0" :> 48) @@ ("1" :> 49) @@ ("2" :> 50) @@ ("3" :> 51) @@ ("4" :> 52) @@
  ("5" :> 53) @@ ("6" :> 54) @@ ("7" :> 55) @@ ("8" :> 56) @@ ("9" :> 57) @@
  (":" :> 58) @@ ("-" :> 45) @@ ("+" :> 43) @@ ("*" :> 42) @@
  ("a" :> 97) @@ ("b" :> 98) @@ ("c" :> 99) @@ ("d" :> 100) @@ ("e" :> 101) @@
  ("i" :> 105) @@ ("l" :> 108) @@ ("n" :> 110) @@ ("x" :> 120) @@ ("y" :> 121) @@ ("z" :> 122) @@
  ("NUL" :> 0) @@ ("HI" :> 167)

B(s) == [j \in 1..Len(s) |-> ByteOf[s[j]]]

integer == 105
list == 108
dictionary == 100
terminator == 101
colon == 58
minus == 45
plus == 43
zero == 48
MaxASCII == 127

\* The host int is IntBits wide (64 in the build; scaled so that TLC's
\* integers can hold it).
IntBits == 16

RECURSIVE Pow2(_)
Pow2(n) == IF n = 0 THEN 1 ELSE 2 * Pow2(n - 1)

MaxInt == Pow2(IntBits - 1) - 1
MinInt == -Pow2(IntBits - 1)

\* Two's-complement wrap of x into the host int.
WrapInt(x) == ((x - MinInt) % Pow2(IntBits)) + MinInt

\* data[off] for a zero-based off < len(data).
At(data, off) == data[off + 1]

\* data[a:b] for 0 <= a <= b <= len(data).
Sub(data, a, b) == SubSeq(data, a + 1, b)

isDigit(b) == b >= zero /\ b <= zero + 9

\* strconv.Atoi: optional sign, then decimal digits only; [ok, n].
RECURSIVE DigitsValue(_, _)
DigitsValue(s, acc) ==
  IF s = <<>> THEN acc
  ELSE IF acc > MaxInt + 1 THEN acc
  ELSE DigitsValue(Tail(s), acc * 10 + (Head(s) - zero))

Atoi(s) ==
  LET signed == s # <<>> /\ Head(s) \in {minus, plus}
      body == IF signed THEN Tail(s) ELSE s
      mag == DigitsValue(body, 0)
      n == IF signed /\ Head(s) = minus THEN -mag ELSE mag
  IN IF body = <<>> \/ \E j \in 1..Len(body) : ~isDigit(body[j])
       THEN [ok |-> FALSE, n |-> 0]
     ELSE IF n > MaxInt \/ n < MinInt THEN [ok |-> FALSE, n |-> 0]
     ELSE [ok |-> TRUE, n |-> n]

\* strconv.Itoa.
RECURSIVE NatDigits(_)
NatDigits(n) ==
  IF n < 10 THEN <<zero + n>> ELSE Append(NatDigits(n \div 10), zero + (n % 10))

Itoa(n) == IF n < 0 THEN <<minus>> \o NatDigits(-n) ELSE NatDigits(n)

\* ------------------------------------------------------------------ types

\* reflect.Type: [k |-> kind] plus elem (slice, array), n (array), fields
\* (struct).  A struct field carries its tag entries, whether its name is
\* exported, and its type.
NoType == [k |-> "invalid"]
Scalar(kind) == [k |-> kind]
SliceOf(t) == [k |-> "slice", elem |-> t]
ArrayOf(n, t) == [k |-> "array", n |-> n, elem |-> t]
StructOf(fs) == [k |-> "struct", fields |-> fs]

\* A field with tag `key:"kt" bencode:"bt"`; hasKey / hasBencode tell
\* whether the entry is present in the tag at all.
Field(hasKey, kt, hasBencode, bt, exported, t) ==
  [hasKey |-> hasKey, key |-> kt, hasBencode |-> hasBencode, bencode |-> bt,
   exported |-> exported, type |-> t]

SignedKinds == {"int", "int8", "int16", "int32", "int64"}
UnsignedKinds == {"uint", "uint8", "uint16", "uint32", "uint64"}

\* reflect.New(t).Elem(): the zero value of t.
RECURSIVE Zero(_)
Zero(t) ==
  CASE t.k = "string" -> <<>>
    [] t.k = "slice" -> <<>>
    [] t.k = "array" -> [j \in 1..t.n |-> Zero(t.elem)]
    [] t.k = "struct" -> [j \in 1..Len(t.fields) |-> Zero(t.fields[j].type)]
    [] OTHER -> 0

\* ------------------------------------------------------------------ decoder

Err(kind, off, node, type, length) ==
  [kind |-> kind, offset |-> off, node |-> node, type |-> type, length |-> length]
NoErr == Err("nil", 0, "", NoType, 0)

\* What a parse step hands back: st is "ok", "err" (an error value is
\* returned) or "panic" (a run-time panic unwinds the call); off is d.offset,
\* val the pointed-to value as the step leaves it.
Ok(off, val) == [st |-> "ok", err |-> NoErr, off |-> off, val |-> val]
Fail(e, val) == [st |-> "err", err |-> e, off |-> e.offset, val |-> val]
Panic(off, val) == [st |-> "panic", err |-> NoErr, off |-> off, val |-> val]

\* *reflect.Value handed down the parse: nil (skip mode) or a pointer to a
\* value of type `type` currently holding `val`; ro is reflect's read-only
\* flag (the value was reached through an unexported field).
NilValue == [nil |-> TRUE, type |-> NoType, val |-> 0, ro |-> FALSE]
ValueOf(t, val, ro) == [nil |-> FALSE, type |-> t, val |-> val, ro |-> ro]

\* decoder{data, offset, valueSetter}; cap(data) = len(data) + len(spare),
\* spare being the bytes of the backing array past len(data).
Decoder(data, spare, setter) == [data |-> data, spare |-> spare, setter |-> setter]

\* isDone that lets one unread byte pass.
isDoneOffByOne(d, off) == Len(d.data) <= off + 1
isDone(d, off) == Len(d.data) <= off

RECURSIVE intLimit(_, _)
intLimit(offset, data) ==
  IF offset < Len(data) /\ isDigit(At(data, offset))
    THEN intLimit(offset + 1, data)
    ELSE offset

\* data[a:b] as the run time evaluates it: bounds are checked against the
\* capacity, so bytes of the backing array past len(data) can be read.
SliceExpr(d, a, b) ==
  IF a < 0 \/ b < a \/ b > Len(d.data) + Len(d.spare)
    THEN [ok |-> FALSE, s |-> <<>>]
    ELSE [ok |-> TRUE, s |-> Sub(d.data \o d.spare, a, b)]

stringIndices(offset, data) ==
  LET intStart == offset
      lim == intLimit(intStart, data)
      length == Atoi(Sub(data, intStart, lim))
      strStart == lim + 1
      strLimit == WrapInt(strStart + length.n)
  IN IF ~length.ok
       THEN [ok |-> FALSE, start |-> 0, limit |-> 0,
             err |-> Err("UnparsableStringLength", offset, "string", NoType, 0)]
     ELSE IF lim >= Len(data) \/ At(data, lim) # colon
       THEN [ok |-> FALSE, start |-> 0, limit |-> 0,
             err |-> Err("MalformedStringLength", offset, "string", NoType, 0)]
     ELSE IF strLimit > Len(data)
       THEN [ok |-> FALSE, start |-> 0, limit |-> 0,
             err |-> Err("StringLengthOverrun", offset, "string", NoType, length.n)]
     ELSE [ok |-> TRUE, start |-> strStart, limit |-> strLimit, err |-> NoErr]

\* valueSetter / noOpValueSetter: [st, val].
SetInt(setter, value, i) ==
  IF setter = "noop" THEN [st |-> "ok", val |-> value.val]
  ELSE IF value.ro THEN [st |-> "panic", val |-> value.val]
  ELSE [st |-> "ok", val |-> i]

SetString(setter, value, s) ==
  IF setter = "noop" THEN [st |-> "ok", val |-> value.val]
  ELSE IF value.ro THEN [st |-> "panic", val |-> value.val]
  ELSE [st |-> "ok", val |-> s]

AppendElem(setter, target, elem) ==
  IF setter = "noop" THEN [st |-> "ok", val |-> target.val]
  ELSE IF target.ro THEN [st |-> "panic", val |-> target.val]
  ELSE [st |-> "ok", val |-> Append(target.val, elem)]

unmarshalString(d, off, value) ==
  LET si == stringIndices(off, d.data)
      body == SliceExpr(d, si.start, si.limit)
  IN IF ~si.ok THEN Fail(si.err, value.val)
     ELSE IF value.nil
       THEN Ok(si.limit, value.val)
     ELSE IF value.type.k # "string"
       THEN Fail(Err("TypeMismatch", off, "string", value.type, 0), value.val)
     ELSE IF ~body.ok THEN Panic(off, value.val)
     ELSE LET set == SetString(d.setter, value, body.s)
          IN IF set.st = "panic" THEN Panic(off, set.val)
             ELSE Ok(si.limit, set.val)

unmarshalInt(d, off, value) ==
  LET intStart == off + 1
      lim == intLimit(intStart + 1, d.data)
      text == SliceExpr(d, intStart, lim)
      i == Atoi(text.s)
  IN IF ~text.ok THEN Panic(off, value.val)
     ELSE IF ~i.ok
       THEN Fail(Err("MalformedInteger", intStart, "integer", NoType, 0), value.val)
     ELSE IF lim >= Len(d.data) \/ At(d.data, lim) # terminator
       THEN Fail(Err("MissingIntegerTerminator", lim, "integer", NoType, 0), value.val)
     ELSE IF value.nil
       THEN Ok(lim + 1, value.val)
     ELSE IF value.type.k # "int64"
       THEN Fail(Err("TypeMismatch", off, "integer", value.type, 0), value.val)
     ELSE LET set == SetInt(d.setter, value, i.n)
          IN IF set.st = "panic" THEN Panic(off, set.val)
             ELSE Ok(lim + 1, set.val)

\* structValues of unmarshalDict: the index of the field a key maps to (the
\* last field declaring it wins the map slot), 0 when the key is unmapped.
structValues(value, key) ==
  IF value.nil THEN 0
  ELSE LET hits == {j \in 1..Len(value.type.fields) :
                      /\ value.type.fields[j].hasBencode
                      /\ value.type.fields[j].bencode = key}
       IN IF hits = {} THEN 0 ELSE CHOOSE j \in hits : \A h \in hits : h <= j

\* nextValue that is never nil: an unmapped key hands down the address of
\* the zero reflect.Value.
nextValueAlways(value, f) ==
  IF f = 0 THEN ValueOf(NoType, 0, FALSE)
  ELSE ValueOf(value.type.fields[f].type, value.val[f],
               value.ro \/ ~value.type.fields[f].exported)

\* nextValue of unmarshalDict: nil unless the key is mapped, else the address
\* of the member.
nextValue(value, f) ==
  IF f = 0 THEN NilValue
  ELSE ValueOf(value.type.fields[f].type, value.val[f],
               value.ro \/ ~value.type.fields[f].exported)

\* The terminator check after the loop of unmarshalList.
listEnd(d, off, value) ==
  IF off >= Len(d.data) \/ At(d.data, off) # terminator
    THEN Fail(Err("UnterminatedList", off, "list", NoType, 0), value.val)
    ELSE Ok(off + 1, value.val)

\* The check after the loop of unmarshalDict with the end of the input taken
\* for the terminator.
dictEndLenient(d, off, value) ==
  IF off >= Len(d.data) THEN Ok(off, value.val)
  ELSE IF At(d.data, off) # terminator
    THEN Fail(Err("UnterminatedDictionary", off, "dictionary", NoType, 0), value.val)
    ELSE Ok(off + 1, value.val)

\* The terminator check after the loop of unmarshalDict.
dictEnd(d, off, value) ==
  IF off >= Len(d.data) \/ At(d.data, off) # terminator
    THEN Fail(Err("UnterminatedDictionary", off, "dictionary", NoType, 0), value.val)
    ELSE Ok(off + 1, value.val)

RECURSIVE unmarshalNext(_, _, _)
RECURSIVE listLoop(_, _, _)
RECURSIVE dictLoop(_, _, _)

\* The loop of unmarshalList running only while the next byte starts a
\* node: a stray byte ends it and is left to the terminator check.
listLoopStopAtStray(d, off, value) ==
  IF off < 0 THEN Panic(off, value.val)
  ELSE IF off < Len(d.data)
            /\ (isDigit(At(d.data, off)) \/ At(d.data, off) \in {integer, list, dictionary})
    THEN IF value.nil
           THEN LET r == unmarshalNext(d, off, NilValue)
                IN IF r.st # "ok" THEN [r EXCEPT !.val = value.val]
                   ELSE listLoop(d, r.off, value)
           ELSE LET elem == ValueOf(value.type.elem, Zero(value.type.elem), FALSE)
                    r == unmarshalNext(d, off, elem)
                    app == AppendElem(d.setter, value, r.val)
                IN IF r.st # "ok" THEN [r EXCEPT !.val = value.val]
                   ELSE IF app.st = "panic" THEN Panic(r.off, app.val)
                   ELSE listLoop(d, r.off, [value EXCEPT !.val = app.val])
    ELSE listEnd(d, off, value)

\* The for loop of unmarshalList and the terminator check after it.
listLoop(d, off, value) ==
  IF off < 0 THEN Panic(off, value.val)
  ELSE IF off < Len(d.data) /\ At(d.data, off) # terminator
    THEN IF value.nil
           THEN LET r == unmarshalNext(d, off, NilValue)
                IN IF r.st # "ok" THEN [r EXCEPT !.val = value.val]
                   ELSE listLoop(d, r.off, value)
           ELSE LET elem == ValueOf(value.type.elem, Zero(value.type.elem), FALSE)
                    r == unmarshalNext(d, off, elem)
                    app == AppendElem(d.setter, value, r.val)
                IN IF r.st # "ok" THEN [r EXCEPT !.val = value.val]
                   ELSE IF app.st = "panic" THEN Panic(r.off, app.val)
                   ELSE listLoop(d, r.off, [value EXCEPT !.val = app.val])
    ELSE listEnd(d, off, value)

\* unmarshalList that checks the target's kind after consuming 'l'.
unmarshalListLate(d, off, value) ==
  IF ~value.nil /\ value.type.k # "slice"
    THEN Fail(Err("TypeMismatch", off + 1, "list", value.type, 0), value.val)
    ELSE listLoop(d, off + 1, value)

unmarshalList(d, off, value) ==
  IF ~value.nil /\ value.type.k # "slice"
    THEN Fail(Err("TypeMismatch", off, "list", value.type, 0), value.val)
    ELSE listLoop(d, off + 1, value)

\* The loop of unmarshalDict with the member map dropped once an entry has
\* been stored: the entries after the first mapped one are skipped.
dictLoopOnce(d, off, value) ==
  IF off < 0 THEN Panic(off, value.val)
  ELSE IF off < Len(d.data) /\ At(d.data, off) # terminator
    THEN IF ~isDigit(At(d.data, off))
           THEN Fail(Err("DictionaryKeyNotString", off, "dictionary", NoType, 0), value.val)
           ELSE LET si == stringIndices(off, d.data)
                    key == SliceExpr(d, si.start, si.limit)
                    f == structValues(value, key.s)
                    r == unmarshalNext(d, si.limit, nextValue(value, f))
                    stored == IF f = 0 THEN value.val
                              ELSE [value.val EXCEPT ![f] = r.val]
                IN IF ~si.ok THEN Fail(si.err, value.val)
                   ELSE IF ~key.ok THEN Panic(off, value.val)
                   ELSE IF r.st # "ok" THEN [r EXCEPT !.val = stored]
                   ELSE IF f = 0 THEN dictLoop(d, r.off, value)
                   ELSE dictLoop(d, r.off, [NilValue EXCEPT !.val = stored])
    ELSE dictEnd(d, off, value)

\* The loop of unmarshalDict without the check that a key starts with a
\* digit: whatever stands at the key position goes to stringIndices.
dictLoopAnyKey(d, off, value) ==
  IF off < 0 THEN Panic(off, value.val)
  ELSE IF off < Len(d.data) /\ At(d.data, off) # terminator
    THEN LET si == stringIndices(off, d.data)
             key == SliceExpr(d, si.start, si.limit)
             f == structValues(value, key.s)
             r == unmarshalNext(d, si.limit, nextValue(value, f))
             stored == IF f = 0 THEN value.val
                       ELSE [value.val EXCEPT ![f] = r.val]
         IN IF ~si.ok THEN Fail(si.err, value.val)
            ELSE IF ~key.ok THEN Panic(off, value.val)
            ELSE IF r.st # "ok" THEN [r EXCEPT !.val = stored]
            ELSE dictLoop(d, r.off, [value EXCEPT !.val = stored])
    ELSE dictEnd(d, off, value)

\* The for loop of unmarshalDict and the terminator check after it.
dictLoop(d, off, value) ==
  IF off < 0 THEN Panic(off, value.val)
  ELSE IF off < Len(d.data) /\ At(d.data, off) # terminator
    THEN IF ~isDigit(At(d.data, off))
           THEN Fail(Err("DictionaryKeyNotString", off, "dictionary", NoType, 0), value.val)
           ELSE LET si == stringIndices(off, d.data)
                    key == SliceExpr(d, si.start, si.limit)
                    f == structValues(value, key.s)
                    r == unmarshalNext(d, si.limit, nextValue(value, f))
                    stored == IF f = 0 THEN value.val
                              ELSE [value.val EXCEPT ![f] = r.val]
                IN IF ~si.ok THEN Fail(si.err, value.val)
                   ELSE IF ~key.ok THEN Panic(off, value.val)
                   ELSE IF r.st # "ok" THEN [r EXCEPT !.val = stored]
                   ELSE dictLoop(d, r.off, [value EXCEPT !.val = stored])
    ELSE dictEnd(d, off, value)

\* unmarshalDict that clears the record before it fills it.
unmarshalDictReset(d, off, value) ==
  IF ~value.nil /\ value.type.k # "struct"
    THEN Fail(Err("TypeMismatch", off, "dictionary", value.type, 0), value.val)
    ELSE dictLoop(d, off + 1,
                  IF value.nil \/ d.setter = "noop" THEN value
                  ELSE [value EXCEPT !.val = Zero(value.type)])

\* unmarshalDict that refuses a record type with a member lacking the tag.
unmarshalDictStrict(d, off, value) ==
  IF ~value.nil /\ value.type.k # "struct"
    THEN Fail(Err("TypeMismatch", off, "dictionary", value.type, 0), value.val)
  ELSE IF ~value.nil /\ \E j \in 1..Len(value.type.fields) : ~value.type.fields[j].hasBencode
    THEN Fail(Err("MissingFieldTag", off, "dictionary", value.type, 0), value.val)
    ELSE dictLoop(d, off + 1, value)

unmarshalDict(d, off, value) ==
  IF ~value.nil /\ value.type.k # "struct"
    THEN Fail(Err("TypeMismatch", off, "dictionary", value.type, 0), value.val)
    ELSE dictLoop(d, off + 1, value)

unmarshalNext(d, off, value) ==
  IF Len(d.data) = 0
    THEN Fail(Err("NoData", off, "", NoType, 0), value.val)
  ELSE IF off < 0 \/ off >= Len(d.data)
    THEN Panic(off, value.val)
  ELSE IF isDigit(At(d.data, off)) THEN unmarshalString(d, off, value)
  ELSE IF At(d.data, off) = integer THEN unmarshalInt(d, off, value)
  ELSE IF At(d.data, off) = list THEN unmarshalList(d, off, value)
  ELSE IF At(d.data, off) = dictionary THEN unmarshalDict(d, off, value)
  ELSE Fail(Err("UnexpectedByte", off, "", NoType, 0), value.val)

\* ------------------------------------------------------------------ encoder

\* A reflect.Value on the encode side is [type, val]; an interface value
\* holds the reflect.Value of its dynamic value (NilValueOf when it is nil).
HostValue(t, val) == [type |-> t, val |-> val]
NilValueOf == HostValue(NoType, 0)

EncErr(kind, str, tname) == [kind |-> kind, str |-> str, tname |-> tname]
NoEncErr == EncErr("nil", <<>>, "")

\* marshalInt writes to the builder and returns nothing.
marshalInt(i, w) == w \o <<integer>> \o Itoa(i) \o <<terminator>>

isASCII(s) == \A j \in 1..Len(s) : ~(s[j] > MaxASCII)

marshalString(s, w) ==
  IF ~isASCII(s)
    THEN [err |-> EncErr("NonASCIIString", s, ""), w |-> w]
    ELSE [err |-> NoEncErr, w |-> w \o Itoa(Len(s)) \o <<colon>> \o s]

\* Go's < on strings: byte-wise lexicographic.
RECURSIVE StrLess(_, _)
StrLess(a, b) ==
  IF b = <<>> THEN FALSE
  ELSE IF a = <<>> THEN TRUE
  ELSE IF Head(a) # Head(b) THEN Head(a) < Head(b)
  ELSE StrLess(Tail(a), Tail(b))

\* sort.Strings.
RECURSIVE InsertSorted(_, _)
InsertSorted(k, sorted) ==
  IF sorted = <<>> THEN <<k>>
  ELSE IF StrLess(k, Head(sorted)) THEN <<k>> \o sorted
  ELSE <<Head(sorted)>> \o InsertSorted(k, Tail(sorted))

\* sort.Strings left out: the keys stay in declaration order.
SortStringsNone(keys) == keys

RECURSIVE SortStrings(_)
SortStrings(keys) ==
  IF keys = <<>> THEN <<>> ELSE InsertSorted(Head(keys), SortStrings(Tail(keys)))

\* Tag.Get("key"): the empty string when the tag has no such entry.
TagGet(f) == IF f.hasKey THEN f.key ELSE <<>>

\* keyToIndex of marshalStruct: the last field declaring the key.
keyToIndex(t, key) ==
  CHOOSE j \in 1..Len(t.fields) :
    /\ TagGet(t.fields[j]) = key
    /\ \A h \in 1..Len(t.fields) : TagGet(t.fields[h]) = key => h <= j

RECURSIVE marshal(_, _)
RECURSIVE listElems(_, _, _)
RECURSIVE structEntries(_, _, _)

\* The element loop of marshalList, from element j on.
listElems(v, j, w) ==
  IF j > Len(v.val) THEN [err |-> NoEncErr, w |-> w \o <<terminator>>]
  ELSE LET r == marshal(HostValue(v.type.elem, v.val[j]), w)
       IN IF r.err # NoEncErr THEN r ELSE listElems(v, j + 1, r.w)

marshalList(v, w) == listElems(v, 1, w \o <<list>>)

\* The entry loop of marshalStruct over the sorted keys: the error of the
\* member's marshal call is dropped, what it wrote stays in the builder.
structEntries(v, keys, w) ==
  IF keys = <<>> THEN [err |-> NoEncErr, w |-> w \o <<terminator>>]
  ELSE LET k == marshalString(Head(keys), w)
           f == keyToIndex(v.type, Head(keys))
           m == marshal(HostValue(v.type.fields[f].type, v.val[f]), k.w)
       IN IF k.err # NoEncErr THEN k ELSE structEntries(v, Tail(keys), m.w)

marshalStruct(v, w) ==
  LET keys == [j \in 1..Len(v.type.fields) |-> TagGet(v.type.fields[j])]
  IN IF \E j \in 1..Len(keys) : keys[j] = <<>>
       THEN [err |-> EncErr("MissingFieldTag", <<>>, ""), w |-> w]
       ELSE structEntries(v, SortStrings(keys), w \o <<dictionary>>)

marshal(v, w) ==
  CASE v.type.k = "interface" -> marshal(v.val, w)
    [] v.type.k \in SignedKinds ->
         [err |-> NoEncErr, w |-> marshalInt(v.val, w)]
    [] v.type.k \in UnsignedKinds ->
         [err |-> NoEncErr, w |-> marshalInt(WrapInt(v.val), w)]
    [] v.type.k = "string" -> marshalString(v.val, w)
    [] v.type.k \in {"array", "slice"} -> marshalList(v, w)
    [] v.type.k = "struct" -> marshalStruct(v, w)
    [] OTHER -> [err |-> EncErr("UnsupportedType", <<>>, v.type.k), w |-> w]

Marshal(v) ==
  LET r == marshal(v, <<>>)
  IN IF r.err # NoEncErr THEN [out |-> <<>>, err |-> r.err]
     ELSE [out |-> r.w, err |-> NoEncErr]

\* ------------------------------------------------------------------ inputs

\* Bounds of the input population.
MaxRaw == 3
MaxElems == 2

\* The Bencode grammar as a tree: IntNode, StrNode, ListNode, DictNode (entries in wire
\* order), and Raw, a leaf whose bytes are written as they are (a malformed
\* node or a stray byte).
IntNode(n) == [k |-> "int", n |-> n]
StrNode(s) == [k |-> "str", s |-> s]
Raw(bytes) == [k |-> "raw", bytes |-> bytes]
ListNode(elems) == [k |-> "list", elems |-> elems]
DictNode(entries) == [k |-> "dict", entries |-> entries]
Entry(key, val) == [key |-> key, val |-> val]
NoTree == [k |-> "none"]

RECURSIVE Wire(_)
RECURSIVE WireAll(_)
RECURSIVE WireEntries(_)
Wire(t) ==
  CASE t.k = "int" -> <<integer>> \o Itoa(t.n) \o <<terminator>>
    [] t.k = "str" -> Itoa(Len(t.s)) \o <<colon>> \o t.s
    [] t.k = "raw" -> t.bytes
    [] t.k = "list" -> <<list>> \o WireAll(t.elems) \o <<terminator>>
    [] t.k = "dict" -> <<dictionary>> \o WireEntries(t.entries) \o <<terminator>>
WireAll(ts) == IF ts = <<>> THEN <<>> ELSE Wire(Head(ts)) \o WireAll(Tail(ts))
WireEntries(es) ==
  IF es = <<>> THEN <<>>
  ELSE Wire(StrNode(Head(es).key)) \o Wire(Head(es).val) \o WireEntries(Tail(es))

SeqsUpTo(S, n) == UNION {[1..m -> S] : m \in 0..n}

\* Exhaustive short inputs.
RawAlphabet == {integer, list, dictionary, terminator, zero, zero + 1, colon, ByteOf["x"]}
RawInputs == SeqsUpTo(RawAlphabet, MaxRaw)
\* The bytes of the backing array past len(data): none, or one digit.
Spares == {<<>>, <<zero + 5>>}

GoodLeaves == {IntNode(1), IntNode(-2), StrNode(B(<<"a">>))}
BadLeaves == {Raw(B(<<"x">>)), Raw(B(<<"i", "e">>))}
ListTrees == {ListNode(es) : es \in SeqsUpTo(GoodLeaves \cup BadLeaves, MaxElems)}
Keys == {B(<<"x">>), B(<<"y">>), B(<<"z">>)}
EntryVals ==
  {IntNode(1), StrNode(B(<<"a">>)), ListNode(<<IntNode(1), IntNode(-2)>>), ListNode(<<IntNode(1), StrNode(B(<<"a">>))>>),
   Raw(B(<<"i", "e">>))}
DictTrees ==
  {DictNode(es) : es \in SeqsUpTo({Entry(k, v) : k \in Keys, v \in EntryVals}, MaxElems)}
NestedTrees ==
  {ListNode(es) : es \in SeqsUpTo({DictNode(<<Entry(B(<<"x">>), IntNode(1))>>),
                               DictNode(<<Entry(B(<<"z">>), DictNode(<<Entry(B(<<"x">>), StrNode(B(<<"a">>)))>>)),
                                      Entry(B(<<"x">>), IntNode(-2))>>),
                               DictNode(<<Entry(B(<<"y">>), IntNode(1))>>)}, MaxElems)}
Trees == GoodLeaves \cup ListTrees \cup DictTrees \cup NestedTrees

\* Documents that are cut short or extended byte by byte.
Seeds ==
  {IntNode(-2), StrNode(B(<<"a", "b">>)), ListNode(<<IntNode(1), IntNode(-2)>>),
   DictNode(<<Entry(B(<<"x">>), IntNode(1)), Entry(B(<<"y">>), ListNode(<<IntNode(1)>>))>>),
   DictNode(<<Entry(B(<<"z">>), ListNode(<<DictNode(<<>>)>>)), Entry(B(<<"x">>), IntNode(1))>>),
   DictNode(<<Entry(B(<<"x">>), IntNode(-2)), Entry(B(<<"z">>), StrNode(B(<<"a">>))),
              Entry(B(<<"y">>), ListNode(<<IntNode(1)>>))>>),
   DictNode(<<Entry(B(<<"z">>), ListNode(<<IntNode(1), StrNode(B(<<"a">>))>>)),
              Entry(B(<<"x">>), IntNode(1))>>),
   ListNode(<<DictNode(<<Entry(B(<<"x">>), IntNode(1))>>)>>)}
Extras == {<<terminator>>, <<ByteOf["x"]>>, <<zero>>}

\* Integer nodes as text: 'i', up to MaxText bytes of sign, digit or other,
\* and the terminator or the end of input.
MaxText == 3
TextAlphabet == {minus, plus, zero, zero + 1, ByteOf["x"]}
IntDocs ==
  {<<integer>> \o s \o t : s \in SeqsUpTo(TextAlphabet, MaxText),
                            t \in {<<terminator>>, <<>>}}

\* String nodes as text: a length (small, at the top of the host int, or
\* one digit too long for it), a separator and a body, at the top level,
\* under an unmapped key or as a list element.  StrDocs holds <<pre, node,
\* post>>; the input is the three joined.
LengthTexts ==
  {Itoa(n) : n \in {0, 1, 2, 3, MaxInt - 2, MaxInt}} \cup {Itoa(MaxInt) \o <<zero>>}
StrDocs ==
  {<<w[1], h \o sep \o body, w[2]>> :
     w \in {<<<<>>, <<>>>>, <<B(<<"d", "1", ":", "z">>), <<terminator>>>>,
            <<<<list>>, <<terminator>>>>},
     h \in LengthTexts,
     sep \in {<<colon>>, <<>>, <<ByteOf["x"]>>},
     body \in {<<>>, B(<<"a">>), B(<<"a", "b">>)}}

\* Dictionaries with something other than a string at a key position: at the
\* top level, as a list element, under an unmapped key, and in a list under
\* an unmapped key; after no entry, a mapped one or an unmapped one.
\* KeyDocs holds <<pre, entries, rest>>; the input is pre, 'd', entries and
\* rest joined, the key position being the first byte of rest.
KeyDocs ==
  {<<pre, es, bad \o tail>> :
     pre \in {<<>>, <<list>>, B(<<"d", "1", ":", "z">>), B(<<"d", "1", ":", "z", "l">>)},
     es \in {<<>>, B(<<"1", ":", "x", "i", "1", "e">>), B(<<"1", ":", "z", "0", ":">>)},
     bad \in {B(<<"i", "1", "e">>), B(<<"l", "e">>), B(<<"d", "e">>), B(<<"x">>),
              B(<<":">>), B(<<"-", "1", ":", "a">>)},
     tail \in {<<>>, B(<<"0", ":", "e">>)}}

\* Target types of the decode scenarios.
TInt64 == Scalar("int64")
TInt == Scalar("int")
TString == Scalar("string")
TSliceInt64 == SliceOf(TInt64)
\* struct { X int64 `bencode:"x"`; Y []int64 `bencode:"y"`; U string }
TRec ==
  StructOf(<<Field(FALSE, <<>>, TRUE, B(<<"x">>), TRUE, TInt64),
             Field(FALSE, <<>>, TRUE, B(<<"y">>), TRUE, TSliceInt64),
             Field(FALSE, <<>>, FALSE, <<>>, TRUE, TString)>>)
TSliceRec == SliceOf(TRec)
\* struct { x int64 `bencode:"x"` }: the member is not exported.
TUnexported == StructOf(<<Field(FALSE, <<>>, TRUE, B(<<"x">>), FALSE, TInt64)>>)
TSliceString == SliceOf(TString)
DecTypes ==
  {TInt64, TInt, TString, TSliceInt64, TSliceString, TRec, TSliceRec, TUnexported}

\* A target that already holds data before the call.
RECURSIVE Canary(_)
Canary(t) ==
  CASE t.k = "string" -> B(<<"c">>)
    [] t.k = "slice" -> <<Canary(t.elem)>>
    [] t.k = "array" -> [j \in 1..t.n |-> Canary(t.elem)]
    [] t.k = "struct" -> [j \in 1..Len(t.fields) |-> Canary(t.fields[j].type)]
    [] OTHER -> 7

\* The argument v of Unmarshal: ptr tells whether it is a non-nil pointer.
Arg(ptr, t, val) == [ptr |-> ptr, type |-> t, val |-> val]
DecArgs ==
  {Arg(TRUE, t, Canary(t)) : t \in DecTypes}
    \cup {Arg(TRUE, TRec, Zero(TRec)), Arg(FALSE, TInt64, 7)}

\* Values handed to Marshal.
MaxFields == 2

\* A record member: its field declaration and the value it holds.
Member(f, val) == [f |-> f, val |-> val]
\* A member tagged `key:"t" bencode:"t"`, exported.
Tagged(t, type, val) == Member(Field(TRUE, t, TRUE, t, TRUE, type), val)

NonASCII == B(<<"a", "HI">>)
\* struct { N int64 `key:"n" bencode:"n"` }
TInner == StructOf(<<Field(TRUE, B(<<"n">>), TRUE, B(<<"n">>), TRUE, TInt64)>>)
\* struct { N int64 }: the member has no tag.
TInnerUntagged == StructOf(<<Field(FALSE, <<>>, FALSE, <<>>, TRUE, TInt64)>>)

MemberPool ==
  <<Tagged(B(<<"b">>), TInt64, 5),
    Tagged(B(<<"a">>), TString, B(<<"a", "b">>)),
    Tagged(B(<<"a", "b">>), TSliceInt64, <<1, -2>>),
    Tagged(B(<<"c">>), TInt, 3),
    Tagged(B(<<"a">>), TInt64, 7),
    Member(Field(FALSE, <<>>, TRUE, B(<<"x">>), TRUE, TInt64), 1),
    Tagged(B(<<"y">>), TString, NonASCII),
    Tagged(B(<<"z">>), Scalar("bool"), 0),
    Tagged(B(<<"d">>), TInner, <<5>>),
    Tagged(B(<<"d", "0">>), TInnerUntagged, <<5>>),
    Tagged(B(<<"l">>), SliceOf(TString), <<B(<<"a">>), NonASCII>>),
    Member(Field(TRUE, B(<<"e">>), TRUE, B(<<"e">>), FALSE, TInt64), 4)>>

\* The record declaring the members ms in this order.
Record(ms) ==
  HostValue(StructOf([j \in 1..Len(ms) |-> ms[j].f]), [j \in 1..Len(ms) |-> ms[j].val])
Injective(q) == \A i, j \in 1..Len(q) : q[i] = q[j] => i = j
\* Every record of up to MaxFields distinct pool members, in every order.
RecordHosts ==
  {Record([j \in 1..Len(q) |-> MemberPool[q[j]]]) :
     q \in {x \in SeqsUpTo(1..Len(MemberPool), MaxFields) : Injective(x)}}

ScalarHosts ==
  {HostValue(Scalar(k), n) : k \in SignedKinds, n \in {0, 12, -3}}
    \cup {HostValue(Scalar(k), n) : k \in UnsignedKinds, n \in {0, 12}}
    \cup {HostValue(Scalar(k), n) : k \in {"uint", "uint64"},
                                   n \in {MaxInt, MaxInt + 1, Pow2(IntBits) - 1}}
    \cup {HostValue(TString, x) : x \in {<<>>, B(<<"a">>), B(<<"1", ":">>), NonASCII}}
UnsupportedHosts ==
  {HostValue(Scalar("bool"), 0), HostValue(Scalar("float64"), 0),
   HostValue(Scalar("ptr"), 0), NilValueOf}
TAny == Scalar("interface")
SeqHosts ==
  {HostValue(SliceOf(TInt64), es) : es \in SeqsUpTo({1, -2}, MaxElems)}
    \cup {HostValue(ArrayOf(Len(es), TInt64), es) : es \in SeqsUpTo({1, -2}, MaxElems)}
    \cup {HostValue(SliceOf(TString), es) : es \in SeqsUpTo({B(<<"a">>), NonASCII}, MaxElems)}
    \cup {HostValue(SliceOf(TAny), es) :
            es \in SeqsUpTo({HostValue(TInt, 1), HostValue(TString, B(<<"a">>)),
                             HostValue(Scalar("bool"), 0)}, MaxElems)}
    \cup {HostValue(SliceOf(TInner), es) : es \in SeqsUpTo({<<5>>, <<-2>>}, MaxElems)}
    \cup {HostValue(SliceOf(TInnerUntagged), es) : es \in SeqsUpTo({<<5>>}, MaxElems)}
    \cup {HostValue(SliceOf(SliceOf(TString)), es) :
            es \in SeqsUpTo({<<B(<<"a">>)>>, <<NonASCII>>}, MaxElems)}
EncHosts == ScalarHosts \cup UnsupportedHosts \cup SeqHosts \cup RecordHosts

\* ------------------------------------------------------------------ state

VARIABLES
  pc,     \* "marshal", "feed", "call", "commit", "done"
  data,   \* Unmarshal's input bytes
  spare,  \* bytes of data's backing array past len(data)
  tree,   \* the grammar tree data was written from (NoTree for raw bytes)
  arg,    \* Unmarshal's argument v as passed: [ptr, type, val]
  cur,    \* the value v points to, as it is now
  vres,   \* how the validation pass ended: [st, off]
  ret,    \* what Unmarshal returned: [st, err], st "nil", "err" or "panic"
  cres,   \* how the commit pass ended: [st, off]
  host,   \* Marshal's argument
  mres    \* what Marshal returned: [out, err]

vars == <<pc, data, spare, tree, arg, cur, vres, cres, ret, host, mres>>

NoRet == [st |-> "none", err |-> NoErr]
NoVres == [st |-> "none", off |-> 0]
NoMres == [out |-> <<>>, err |-> EncErr("none", <<>>, "")]

\* The validation pass run with the real setters.
validatorSetterReal == "real"
validatorSetter == "noop"
decoderSetter == "real"

\* Unmarshal as one step on the input bytes (backing: the bytes of the
\* backing array past them) and the argument a: what it returns and what it
\* leaves in *v.
Unmarshal(bytes, backing, a) ==
  IF ~a.ptr
    THEN [ret |-> [st |-> "err", err |-> Err("NotPointer", 0, "", a.type, 0)], val |-> a.val]
    ELSE LET v == unmarshalNext(Decoder(bytes, backing, validatorSetter), 0,
                                ValueOf(a.type, a.val, FALSE))
             c == unmarshalNext(Decoder(bytes, backing, decoderSetter), 0,
                                ValueOf(a.type, v.val, FALSE))
         IN IF v.st = "panic" THEN [ret |-> [st |-> "panic", err |-> NoErr], val |-> v.val]
            ELSE IF v.st = "err" THEN [ret |-> [st |-> "err", err |-> v.err], val |-> v.val]
            ELSE IF ~isDone(Decoder(bytes, backing, validatorSetter), v.off)
              THEN [ret |-> [st |-> "err", err |-> Err("TrailingData", v.off, "", NoType, 0)],
                    val |-> v.val]
            ELSE [ret |-> [st |-> IF c.st = "ok" THEN "nil" ELSE c.st, err |-> c.err],
                  val |-> c.val]

\* One pass of Unmarshal over the whole input, from offset 0.
Pass(setter) ==
  unmarshalNext(Decoder(data, spare, setter), 0, ValueOf(arg.type, cur, FALSE))

\* Unmarshal up to the end of the validation pass.
Validate ==
  /\ pc = "call"
  /\ IF ~arg.ptr
       THEN /\ ret' = [st |-> "err", err |-> Err("NotPointer", 0, "", arg.type, 0)]
            /\ pc' = "done"
            /\ UNCHANGED <<cur, vres>>
       ELSE \E r \in {Pass(validatorSetter)} :
              /\ vres' = [st |-> r.st, off |-> r.off]
              /\ cur' = r.val
              /\ IF r.st = "panic"
                   THEN ret' = [st |-> "panic", err |-> NoErr] /\ pc' = "done"
                 ELSE IF r.st = "err"
                   THEN ret' = [st |-> "err", err |-> r.err] /\ pc' = "done"
                 ELSE IF ~isDone(Decoder(data, spare, validatorSetter), r.off)
                   THEN /\ ret' = [st |-> "err", err |-> Err("TrailingData", r.off, "", NoType, 0)]
                        /\ pc' = "done"
                 ELSE ret' = ret /\ pc' = "commit"
  /\ UNCHANGED <<data, spare, tree, arg, cres, host, mres>>

\* The second pass, with the real setters; its result is Unmarshal's.
Commit ==
  /\ pc = "commit"
  /\ \E r \in {Pass(decoderSetter)} :
       /\ cur' = r.val
       /\ cres' = [st |-> r.st, off |-> r.off]
       /\ ret' = [st |-> IF r.st = "ok" THEN "nil" ELSE r.st, err |-> r.err]
       /\ pc' = "done"
  /\ UNCHANGED <<data, spare, tree, arg, vres, host, mres>>

\* Marshal(host).
DoMarshal ==
  /\ pc = "marshal"
  /\ mres' = Marshal(host)
  /\ pc' = IF mres'.err # NoEncErr THEN "done" ELSE "feed"
  /\ UNCHANGED <<data, spare, tree, arg, cur, vres, cres, ret, host>>

\* The usage example's round trip: what Marshal returned is handed to
\* Unmarshal with a pointer to a fresh variable of the value's own type.
Feed ==
  /\ pc = "feed"
  /\ data' = mres.out
  /\ arg' = Arg(TRUE, host.type, Zero(host.type))
  /\ cur' = Zero(host.type)
  /\ pc' = "call"
  /\ UNCHANGED <<spare, tree, vres, cres, ret, host, mres>>

InitCommon ==
  /\ vres = NoVres
  /\ cres = NoVres
  /\ ret = NoRet
  /\ mres = NoMres

\* Unmarshal is called on raw bytes, on a written tree, or on a seed
\* document cut short or extended.
Init ==
  /\ pc = "call"
  /\ host = NilValueOf
  /\ InitCommon
  /\ arg \in DecArgs
  /\ cur = arg.val
  /\ \/ /\ data \in RawInputs
        /\ spare \in Spares
        /\ tree = NoTree
     \/ /\ tree \in Trees
        /\ data = Wire(tree)
        /\ spare = <<>>
     \/ /\ tree \in Seeds
        /\ \/ \E n \in 0..Len(Wire(tree)) : data = SubSeq(Wire(tree), 1, n)
           \/ \E x \in Extras : data = Wire(tree) \o x
        /\ spare = <<>>
     \/ /\ data \in IntDocs
        /\ spare = <<>>
        /\ tree = NoTree
     \/ /\ \E doc \in StrDocs : data = doc[1] \o doc[2] \o doc[3]
        /\ spare = <<>>
        /\ tree = NoTree
     \/ /\ \E doc \in KeyDocs : data = doc[1] \o <<dictionary>> \o doc[2] \o doc[3]
        /\ spare = <<>>
        /\ tree = NoTree

Next == Validate \/ Commit

Spec == Init /\ [][Next]_vars

\* Marshal is called, and its output, if any, is decoded back.
InitCodec ==
  /\ pc = "marshal"
  /\ host \in EncHosts
  /\ InitCommon
  /\ data = <<>>
  /\ spare = <<>>
  /\ tree = NoTree
  /\ arg = Arg(TRUE, NoType, 0)
  /\ cur = 0

NextCodec == DoMarshal \/ Feed \/ Validate \/ Commit

SpecCodec == InitCodec /\ [][NextCodec]_vars

\* ------------------------------------------------------------------ claims

\* C1: whenever Unmarshal returns an error, the value its argument points to
\* is what it was before the call: nothing was appended, no member assigned.
C1_ErrorLeavesTargetUnchanged == ret.st = "err" => cur = arg.val

\* C1 witness: an error returned from inside a dictionary, after at least one
\* whole entry before it was parsed into a record that held data.
C1_Witness ==
  /\ ret.st = "err"
  /\ arg.type = TRec
  /\ ret.err.offset >= 8
  /\ Len(data) > 0 /\ At(data, 0) = dictionary

\* C2: Unmarshal always ends by returning nil or an error; no parse step
\* indexes or slices the input out of range.  (The validation pass writes
\* nothing, so a panic in it is an out-of-range read.)
C2_NoOutOfRangeRead == vres.st # "panic"

\* C5: if the top-level node parses and ends at k < len(input), Unmarshal
\* returns TrailingData citing k; it returns nil only when the node consumed
\* exactly len(input) bytes.  For a well-formed document followed by extra
\* bytes, k is the length of the document.
C5_TrailingData ==
  /\ (vres.st = "ok" /\ vres.off < Len(data)) =>
       ret = [st |-> "err", err |-> Err("TrailingData", vres.off, "", NoType, 0)]
  /\ ret.st = "nil" => (vres.st = "ok" /\ vres.off = Len(data))
  /\ (pc = "done" /\ ret.err.kind = "TrailingData" /\ tree \in Seeds) =>
       ret.err.offset = Len(Wire(tree))

\* C5 witness: a list, fully parsed, is followed by one more byte.
C5_Witness ==
  /\ ret.st = "err" /\ ret.err.kind = "TrailingData"
  /\ arg.type = TSliceInt64
  /\ ret.err.offset = Len(data) - 1
  /\ ret.err.offset > 2

\* What can be wrong with a value handed to Marshal, anywhere inside it.
RECURSIVE Defects(_)
Defects(v) ==
  CASE v.type.k = "interface" -> Defects(v.val)
    [] v.type.k \in SignedKinds \cup UnsignedKinds -> {}
    [] v.type.k = "string" ->
         IF \E j \in 1..Len(v.val) : v.val[j] > 127 THEN {"NonASCIIString"} ELSE {}
    [] v.type.k \in {"array", "slice"} ->
         UNION {Defects(HostValue(v.type.elem, v.val[j])) : j \in 1..Len(v.val)}
    [] v.type.k = "struct" ->
         (IF \E j \in 1..Len(v.type.fields) : ~v.type.fields[j].hasKey
            THEN {"MissingFieldTag"} ELSE {})
           \cup UNION {Defects(HostValue(v.type.fields[j].type, v.val[j])) :
                         j \in 1..Len(v.type.fields)}
    [] OTHER -> {"UnsupportedType"}

\* The value holds an interface somewhere.
RECURSIVE HasInterface(_)
HasInterface(t) ==
  CASE t.k = "interface" -> TRUE
    [] t.k \in {"array", "slice"} -> HasInterface(t.elem)
    [] t.k = "struct" -> \E j \in 1..Len(t.fields) : HasInterface(t.fields[j].type)
    [] OTHER -> FALSE

\* C3: round trip.  For every value Marshal encodes without error (integers
\* of any width, ASCII strings, sequences, tagged records and nestings of
\* these), Unmarshal of the output into a zero value of the same type
\* succeeds and yields the value.
C3_RoundTrip ==
  (/\ pc = "done"
   /\ mres.err = NoEncErr
   /\ Defects(host) = {}
   /\ ~HasInterface(host.type))
    => (ret.st = "nil" /\ cur = host.val)

\* Byte-lexicographic order on tags.
LexLess(a, b) ==
  \E n \in 0..Len(a) :
    /\ n <= Len(b)
    /\ \A j \in 1..n : a[j] = b[j]
    /\ \/ n = Len(a) /\ n < Len(b)
       \/ n < Len(a) /\ n < Len(b) /\ a[n + 1] < b[n + 1]

Perms(n) == {q \in [1..n -> 1..n] : \A i, j \in 1..n : q[i] = q[j] => i = j}

\* The record v with its members declared in the order q.
Permuted(v, q) ==
  HostValue(StructOf([j \in 1..Len(q) |-> v.type.fields[q[j]]]),
            [j \in 1..Len(q) |-> v.val[q[j]]])

\* Every member carries a key tag and no two members share one.
TagsDistinct(v) ==
  /\ \A j \in 1..Len(v.type.fields) : v.type.fields[j].hasKey /\ v.type.fields[j].key # <<>>
  /\ \A i, j \in 1..Len(v.type.fields) :
       v.type.fields[i].key = v.type.fields[j].key => i = j

RECURSIVE Concat(_)
Concat(ss) == IF ss = <<>> THEN <<>> ELSE Head(ss) \o Concat(Tail(ss))

\* C4: Marshal of a record emits the entries in ascending
\* byte-lexicographic order of tag whatever the declaration order, each
\* entry holding the value of a member declared under that tag; when the
\* tags are pairwise distinct (the mapping the record type stands for is a
\* function) every reordering of the members encodes to the same bytes.
C4_CanonicalOrder ==
  (pc # "marshal" /\ host.type.k = "struct") =>
    /\ TagsDistinct(host) =>
         \A q \in Perms(Len(host.val)) : Marshal(Permuted(host, q)) = mres
    /\ mres.err = NoEncErr =>
         \E q \in Perms(Len(host.val)) :
           /\ \A j \in 1..(Len(q) - 1) :
                \/ LexLess(host.type.fields[q[j]].key, host.type.fields[q[j + 1]].key)
                \/ host.type.fields[q[j]].key = host.type.fields[q[j + 1]].key
           /\ \E pick \in [1..Len(q) -> 1..Len(q)] :
                /\ \A j \in 1..Len(q) :
                     host.type.fields[pick[j]].key = host.type.fields[q[j]].key
                /\ mres.out =
                     <<dictionary>>
                       \o Concat([j \in 1..Len(q) |->
                            Wire(StrNode(host.type.fields[q[j]].key))
                              \o marshal(HostValue(host.type.fields[pick[j]].type,
                                                   host.val[pick[j]]), <<>>).w])
                       \o <<terminator>>

\* C4 witness: a record of two members declared in descending tag order has
\* been encoded.
C4_Witness ==
  /\ pc = "feed"
  /\ host.type.k = "struct"
  /\ Len(host.val) = 2
  /\ TagsDistinct(host)
  /\ LexLess(host.type.fields[2].key, host.type.fields[1].key)

\* C6: Marshal returns NonASCIIString and no output whenever a string
\* anywhere in the value holds a byte above 0x7F.
C6_NonASCIIRejected ==
  (pc # "marshal" /\ Defects(host) = {"NonASCIIString"}) =>
    (mres.err.kind = "NonASCIIString" /\ mres.out = <<>>)

\* C7: Marshal returns MissingFieldTag and no output whenever a record
\* anywhere in the value has a member without a tag.
C7_MissingTagRejected ==
  (pc # "marshal" /\ Defects(host) = {"MissingFieldTag"}) =>
    (mres.err.kind = "MissingFieldTag" /\ mres.out = <<>>)

\* C8: Marshal returns UnsupportedType and no output whenever a component
\* anywhere in the value is no integer, string, sequence or record.
C8_UnsupportedRejected ==
  (pc # "marshal" /\ Defects(host) = {"UnsupportedType"}) =>
    (mres.err.kind = "UnsupportedType" /\ mres.out = <<>>)

\* No Raw leaf anywhere: the tree is a document of the grammar.
RECURSIVE WellFormed(_)
WellFormed(t) ==
  CASE t.k = "raw" -> FALSE
    [] t.k = "list" -> \A j \in 1..Len(t.elems) : WellFormed(t.elems[j])
    [] t.k = "dict" -> \A j \in 1..Len(t.entries) : WellFormed(t.entries[j].val)
    [] OTHER -> TRUE

\* The tags a record type maps.
MappedTags(t) ==
  {t.fields[j].bencode : j \in {i \in 1..Len(t.fields) : t.fields[i].hasBencode}}

\* The dictionary without the entries whose key the type does not map.
Strip(t, type) ==
  LET Keep(e) == e.key \in MappedTags(type)
  IN DictNode(SelectSeq(t.entries, Keep))

\* C9: an entry whose key is no tag of the target record does not make
\* Unmarshal fail: its value is consumed and dropped, and the mapped entries
\* before and after it are decoded as if it were not there.
C9_UnmappedKeyTolerated ==
  (/\ pc = "done" /\ arg.ptr
   /\ arg.type.k = "struct"
   /\ tree.k = "dict" /\ data = Wire(tree) /\ WellFormed(tree)
   /\ \E j \in 1..Len(tree.entries) : tree.entries[j].key \notin MappedTags(arg.type))
    => /\ \A dry \in {unmarshalNext(Decoder(Wire(Strip(tree, arg.type)), <<>>, "noop"), 0,
                                     ValueOf(arg.type, arg.val, FALSE))} :
            \A wet \in {unmarshalNext(Decoder(Wire(Strip(tree, arg.type)), <<>>, "real"), 0,
                                      ValueOf(arg.type, arg.val, FALSE))} :
              dry.st = "ok" =>
                /\ ret.st = (IF wet.st = "ok" THEN "nil" ELSE wet.st)
                /\ cur = wet.val
       /\ (/\ arg.type = TRec
           /\ tree.entries[Len(tree.entries)].key = B(<<"x">>)
           /\ tree.entries[Len(tree.entries)].val.k = "int"
           /\ \A j \in 1..Len(tree.entries) :
                tree.entries[j].key # B(<<"y">>) /\
                (tree.entries[j].key = B(<<"x">>) => tree.entries[j].val.k = "int"))
            => (ret.st = "nil" /\ cur[1] = tree.entries[Len(tree.entries)].val.n
                /\ cur[2] = arg.val[2] /\ cur[3] = arg.val[3])

\* C9 witness: an unmapped entry stands between two mapped ones, and both
\* were decoded into their members.
C9_Witness ==
  /\ ret.st = "nil"
  /\ arg.type = TRec
  /\ tree.k = "dict" /\ Len(tree.entries) = 3
  /\ tree.entries[2].key = B(<<"z">>)
  /\ cur[1] = -2
  /\ cur[2] = <<7, 1>>

\* Where decoding the document t into the type ty first meets a node whose
\* kind does not correspond to the shape expected there ("mismatch"), if it
\* does before it meets an integer for an integer type other than int64 or a
\* list for an array ("blocked"); "clean" otherwise.  off is the offset of
\* that node, or the offset after t.
SkipType == [k |-> "skip"]
Clean(end) == [st |-> "clean", off |-> end, node |-> "", type |-> NoType]
Mismatch(off, node, ty) == [st |-> "mismatch", off |-> off, node |-> node, type |-> ty]
Blocked(off) == [st |-> "blocked", off |-> off, node |-> "", type |-> NoType]

RECURSIVE Scan(_, _, _)
RECURSIVE ScanElems(_, _, _)
RECURSIVE ScanEntries(_, _, _)
Scan(t, ty, off) ==
  IF ty.k = "skip" THEN Clean(off + Len(Wire(t)))
  ELSE CASE t.k = "int" ->
              IF ty.k = "int64" THEN Clean(off + Len(Wire(t)))
              ELSE IF ty.k \in SignedKinds \cup UnsignedKinds THEN Blocked(off)
              ELSE Mismatch(off, "integer", ty)
         [] t.k = "str" ->
              IF ty.k = "string" THEN Clean(off + Len(Wire(t)))
              ELSE Mismatch(off, "string", ty)
         [] t.k = "list" ->
              IF ty.k = "slice" THEN ScanElems(t.elems, ty.elem, off + 1)
              ELSE IF ty.k = "array" THEN Blocked(off)
              ELSE Mismatch(off, "list", ty)
         [] t.k = "dict" ->
              IF ty.k = "struct" THEN ScanEntries(t.entries, ty, off + 1)
              ELSE Mismatch(off, "dictionary", ty)
ScanElems(es, ety, off) ==
  IF es = <<>> THEN Clean(off + 1)
  ELSE \* one element, then the rest
       IF Scan(Head(es), ety, off).st # "clean" THEN Scan(Head(es), ety, off)
       ELSE ScanElems(Tail(es), ety, Scan(Head(es), ety, off).off)
ScanEntries(es, ty, off) ==
  IF es = <<>> THEN Clean(off + 1)
  ELSE LET hits == {j \in 1..Len(ty.fields) :
                      ty.fields[j].hasBencode /\ ty.fields[j].bencode = Head(es).key}
           vty == IF hits = {} THEN SkipType
                  ELSE ty.fields[CHOOSE j \in hits : \A h \in hits : h <= j].type
           r == Scan(Head(es).val, vty, off + Len(Wire(StrNode(Head(es).key))))
       IN IF r.st # "clean" THEN r ELSE ScanEntries(Tail(es), ty, r.off)

\* C10: when decoding a well-formed document meets a node whose kind does not
\* correspond to the shape expected at that place, at any depth, Unmarshal
\* fails with TypeMismatch citing the offset of the node's first byte, the
\* node's kind and the type expected.
C10_TypeMismatch ==
  (/\ pc = "done" /\ arg.ptr
   /\ tree.k # "none" /\ data = Wire(tree) /\ WellFormed(tree))
    => \A s \in {Scan(tree, arg.type, 0)} :
         s.st = "mismatch" =>
           ret = [st |-> "err", err |-> Err("TypeMismatch", s.off, s.node, s.type, 0)]

\* C10 witness: an integer under a record's sequence member, two levels
\* below the top, is reported at its own offset.
C10_Witness ==
  /\ ret.st = "err" /\ ret.err.kind = "TypeMismatch"
  /\ ret.err.node = "integer"
  /\ ret.err.offset = 5
  /\ arg.type = TSliceRec
  /\ tree.k = "list" /\ data = Wire(tree)

\* C11: a well-formed Integer node decodes without error into a target of
\* any integer type, signed or unsigned and of any width, and the target
\* then holds the node's value.
C11_AnyIntegerTarget ==
  (/\ pc = "done" /\ arg.ptr
   /\ tree.k = "int" /\ data = Wire(tree)
   /\ arg.type.k \in SignedKinds \cup UnsignedKinds)
    => (ret.st = "nil" /\ cur = tree.n)

\* C12: the only sign an Integer node may carry is one '-' right after 'i';
\* any other non-digit there, such as '+', is rejected with MalformedInteger.
C12_OnlyMinusSign ==
  (/\ pc = "done" /\ arg.ptr
   /\ Len(data) >= 2 /\ At(data, 0) = integer
   /\ ~isDigit(At(data, 1)) /\ At(data, 1) # minus)
    => (ret.st = "err" /\ ret.err.kind = "MalformedInteger")

\* The text between 'i' and 'e' is a signed digit run that is not in
\* canonical form: a leading zero before more digits, or a zero after '-'.
NonCanonical(text) ==
  /\ text # <<>>
  /\ LET digits == IF Head(text) = minus THEN Tail(text) ELSE text
     IN /\ digits # <<>>
        /\ \A j \in 1..Len(digits) : isDigit(digits[j])
        /\ \/ Len(digits) > 1 /\ digits[1] = zero
           \/ Head(text) = minus /\ digits[1] = zero

\* C13: an Integer node that is not in canonical form (i007e, i-0e) is
\* rejected with an error.
C13_CanonicalIntegerOnly ==
  (/\ pc = "done" /\ arg.ptr
   /\ Len(data) >= 3 /\ At(data, 0) = integer /\ At(data, Len(data) - 1) = terminator
   /\ NonCanonical(Sub(data, 1, Len(data) - 1)))
    => ret.st = "err"

\* The offset at which the maximal digit run starting at offset from ends.
RunEnd(bytes, from) ==
  CHOOSE k \in from..Len(bytes) :
    /\ \A j \in from..(k - 1) : isDigit(At(bytes, j))
    /\ k = Len(bytes) \/ ~isDigit(At(bytes, k))

\* C14: for an Integer node at offset 0: without a digit run, optionally
\* preceded by '-', after the 'i', Unmarshal fails with MalformedInteger at
\* offset 1; with a digit run ending before offset q that is not followed by
\* 'e', it fails with MissingIntegerTerminator at offset q.
C14_IntegerErrorOffsets ==
  (pc = "done" /\ arg.ptr /\ Len(data) >= 1 /\ At(data, 0) = integer) =>
    LET first == IF Len(data) >= 2 /\ At(data, 1) = minus THEN 2 ELSE 1
        q == RunEnd(data, first)
    IN IF q = first
         THEN ret = [st |-> "err", err |-> Err("MalformedInteger", 1, "integer", NoType, 0)]
       ELSE (q >= Len(data) \/ At(data, q) # terminator) =>
              ret = [st |-> "err", err |-> Err("MissingIntegerTerminator", q, "integer", NoType, 0)]

\* The number a digit run denotes.
RECURSIVE Decimal(_)
Decimal(digits) ==
  IF digits = <<>> THEN 0
  ELSE 10 * Decimal(SubSeq(digits, 1, Len(digits) - 1)) + (digits[Len(digits)] - zero)

\* C15: for a String node at offset 0 whose declared length L the host int
\* can hold: a digit run not followed by ':' fails with
\* MalformedStringLength at offset 0; fewer than L bytes after the ':' fails
\* with StringLengthOverrun citing offset 0 and L.
C15_StringErrorOffsets ==
  (pc = "done" /\ arg.ptr /\ Len(data) >= 1 /\ isDigit(At(data, 0))) =>
    LET q == RunEnd(data, 0)
        L == Decimal(Sub(data, 0, q))
    IN L <= MaxInt =>
         IF q >= Len(data) \/ At(data, q) # colon
           THEN ret = [st |-> "err", err |-> Err("MalformedStringLength", 0, "string", NoType, 0)]
         ELSE L > Len(data) - (q + 1) =>
                ret = [st |-> "err", err |-> Err("StringLengthOverrun", 0, "string", NoType, L)]

\* The dictionary with its entries in the order q.
PermutedDict(t, q) == DictNode([j \in 1..Len(q) |-> t.entries[q[j]]])

KeysDistinct(t) ==
  \A i, j \in 1..Len(t.entries) : t.entries[i].key = t.entries[j].key => i = j

\* C16: for a well-formed dictionary with pairwise distinct keys, Unmarshal
\* of every permutation of its entries ends the same way and leaves the same
\* record value.
C16_AnyKeyOrder ==
  (/\ pc = "done" /\ arg.ptr /\ arg.type.k = "struct"
   /\ tree.k = "dict" /\ data = Wire(tree)
   /\ WellFormed(tree) /\ KeysDistinct(tree))
    => \A q \in Perms(Len(tree.entries)) :
         \A u \in {Unmarshal(Wire(PermutedDict(tree, q)), <<>>, arg)} :
           u.ret.st = ret.st /\ u.val = cur

\* C16 witness: two mapped entries in descending key order were decoded
\* into their members.
C16_Witness ==
  /\ ret.st = "nil"
  /\ arg.type = TRec
  /\ tree.k = "dict" /\ data = Wire(tree)
  /\ Len(tree.entries) = 2
  /\ tree.entries[1].key = B(<<"y">>) /\ tree.entries[2].key = B(<<"x">>)
  /\ cur[1] = 1
  /\ cur[2] = <<7, 1, -2>>

\* The indices of the members of a record type that carry the bencode tag.
RECURSIVE TaggedIndices(_, _)
TaggedIndices(t, j) ==
  IF j > Len(t.fields) THEN <<>>
  ELSE IF t.fields[j].hasBencode THEN <<j>> \o TaggedIndices(t, j + 1)
  ELSE TaggedIndices(t, j + 1)

\* The argument a with the untagged members of its record type left out.
WithoutUntagged(a) ==
  LET ix == TaggedIndices(a.type, 1)
  IN Arg(a.ptr, StructOf([j \in 1..Len(ix) |-> a.type.fields[ix[j]]]),
         [j \in 1..Len(ix) |-> a.val[ix[j]]])

\* C17 as stated: Unmarshal of a dictionary into a record type with a
\* member that carries no tag returns an error.
C17_UntaggedMemberRejected ==
  (/\ pc = "done" /\ arg.ptr /\ arg.type.k = "struct"
   /\ \E j \in 1..Len(arg.type.fields) : ~arg.type.fields[j].hasBencode
   /\ tree.k = "dict" /\ data = Wire(tree))
    => ret.st = "err"

\* C17 as amended: a member without a tag is no error for Unmarshal.  The
\* member is left out of the key lookup and keeps its value, and the call
\* ends as it does for the record type without that member.
C17_UntaggedMemberSkipped ==
  (/\ pc = "done" /\ arg.ptr /\ arg.type.k = "struct"
   /\ \E j \in 1..Len(arg.type.fields) : ~arg.type.fields[j].hasBencode
   /\ tree.k = "dict" /\ data = Wire(tree))
    => \A u \in {Unmarshal(data, spare, WithoutUntagged(arg))} :
         /\ ret = u.ret
         /\ \A j \in 1..Len(arg.type.fields) :
              ~arg.type.fields[j].hasBencode => cur[j] = arg.val[j]
         /\ \A k \in 1..Len(u.val) : cur[TaggedIndices(arg.type, 1)[k]] = u.val[k]

\* C17 witness: a dictionary was decoded into the record with the untagged
\* member U; X was set and U still holds what it held.
C17_Witness ==
  /\ ret.st = "nil"
  /\ arg.type = TRec
  /\ tree.k = "dict" /\ data = Wire(tree)
  /\ cur[1] = 1
  /\ cur[3] = B(<<"c">>)

\* C18: whenever the validation pass succeeds with its cursor at
\* len(input), the commit pass over the same input returns no error and
\* ends with the same cursor.
C18_CommitRepeatsValidation ==
  (pc = "done" /\ vres.st = "ok" /\ vres.off = Len(data))
    => (cres.st = "ok" /\ cres.off = vres.off /\ ret.st = "nil")

\* C19: the cursor of a pass never falls below where it started, and a pass
\* that parsed its node has moved it forward by at least two bytes.
C19_CursorAdvances ==
  /\ vres.st \in {"ok", "panic"} => vres.off >= 0
  /\ cres.st \in {"ok", "panic"} => cres.off >= 0
  /\ vres.st = "ok" => vres.off >= 2
  /\ cres.st = "ok" => cres.off >= 2

\* C20: in a list decoded into a sequence, a stray byte 'x' at an element
\* position, after elements that fit the target, fails with UnexpectedByte
\* at that byte's offset, not with UnterminatedList.
C20_UnexpectedByteInList ==
  (/\ pc = "done" /\ arg.ptr /\ arg.type.k = "slice"
   /\ tree.k = "list" /\ data = Wire(tree))
    => \A j \in 1..Len(tree.elems) :
         (/\ tree.elems[j] = Raw(B(<<"x">>))
          /\ \A i \in 1..(j - 1) :
               /\ WellFormed(tree.elems[i])
               /\ Scan(tree.elems[i], arg.type.elem, 0).st = "clean")
           => ret = [st |-> "err",
                     err |-> Err("UnexpectedByte",
                                 1 + Len(WireAll(SubSeq(tree.elems, 1, j - 1))),
                                 "", NoType, 0)]

\* C20 witness: the stray byte follows a decoded element (li1exe) and is
\* reported at its own offset.
C20_Witness ==
  /\ ret.st = "err" /\ ret.err.kind = "UnexpectedByte"
  /\ ret.err.offset = 4
  /\ arg.type = TSliceInt64
  /\ tree.k = "list" /\ data = Wire(tree)
  /\ Len(tree.elems) = 2

\* The offsets in the bytes of t, written at offset off, that are an element
\* boundary of a list or an entry boundary of a dictionary (after the opening
\* byte or after a complete element or entry), each with the kind of the
\* container that is open there.
RECURSIVE Boundaries(_, _)
Boundaries(t, off) ==
  CASE t.k = "list" ->
         {[at |-> off + 1 + Len(WireAll(SubSeq(t.elems, 1, j))), node |-> "list"] :
            j \in 0..Len(t.elems)}
           \cup UNION {Boundaries(t.elems[j],
                                  off + 1 + Len(WireAll(SubSeq(t.elems, 1, j - 1)))) :
                         j \in 1..Len(t.elems)}
    [] t.k = "dict" ->
         {[at |-> off + 1 + Len(WireEntries(SubSeq(t.entries, 1, j))), node |-> "dictionary"] :
            j \in 0..Len(t.entries)}
           \cup UNION {Boundaries(t.entries[j].val,
                                  off + 1 + Len(WireEntries(SubSeq(t.entries, 1, j - 1)))
                                    + Len(Wire(StrNode(t.entries[j].key)))) :
                         j \in 1..Len(t.entries)}
    [] OTHER -> {}

\* C21: when the input is a document cut at an element boundary of a list
\* or at an entry boundary of a dictionary, Unmarshal fails with
\* UnterminatedList or UnterminatedDictionary, after the container open
\* there, citing offset len(input).
C21_UnterminatedAtBoundary ==
  (/\ pc = "done" /\ arg.ptr
   /\ tree \in Seeds
   /\ Len(data) < Len(Wire(tree)) /\ data = SubSeq(Wire(tree), 1, Len(data))
   /\ Scan(tree, arg.type, 0).st = "clean")
    => \A b \in Boundaries(tree, 0) :
         b.at = Len(data) =>
           ret = [st |-> "err",
                  err |-> Err(IF b.node = "list" THEN "UnterminatedList"
                              ELSE "UnterminatedDictionary",
                              Len(data), b.node, NoType, 0)]

\* C21 witness: a dictionary cut after its first complete entry was reported
\* unterminated at the end of the input.
C21_Witness ==
  /\ ret.st = "err" /\ ret.err.kind = "UnterminatedDictionary"
  /\ arg.type = TRec
  /\ tree \in Seeds
  /\ Len(data) < Len(Wire(tree)) /\ data = SubSeq(Wire(tree), 1, Len(data))
  /\ Len(data) > 1
  /\ ret.err.offset = Len(data)

\* C22: in a dictionary, a byte at a key position that is neither 'e' nor a
\* digit fails with DictionaryKeyNotString at that position's offset, in a
\* dictionary decoded into a record and in one skipped under an unmapped key.
C22_KeyNotString ==
  (pc = "done" /\ arg.ptr) =>
    \A doc \in KeyDocs :
      (/\ data = doc[1] \o <<dictionary>> \o doc[2] \o doc[3]
       /\ IF doc[1] = <<list>> THEN arg.type.k = "slice" /\ arg.type.elem.k = "struct"
          ELSE arg.type.k = "struct")
        => ret = [st |-> "err",
                  err |-> Err("DictionaryKeyNotString", Len(doc[1]) + 1 + Len(doc[2]),
                              "dictionary", NoType, 0)]

\* C22 witness: the key position of a dictionary inside a list under an
\* unmapped key, after one entry, was reported.
C22_Witness ==
  /\ ret.st = "err" /\ ret.err.kind = "DictionaryKeyNotString"
  /\ ret.err.offset = 11
  /\ arg.type = TRec
  /\ Len(data) > 11 /\ SubSeq(data, 1, 5) = B(<<"d", "1", ":", "z", "l">>)

\* C23: the value under an unmapped key is parsed by the grammar alone.  A
\* dictionary whose keys are all unmapped is accepted whatever its values
\* are, and leaves the target as it was; a document cut inside the value of
\* an unmapped key fails with an error whose offset lies in that value.
C23_SkippedValueParsed ==
  (/\ pc = "done" /\ arg.ptr /\ arg.type.k = "struct"
   /\ tree.k = "dict" /\ WellFormed(tree)
   /\ Len(data) <= Len(Wire(tree)) /\ data = SubSeq(Wire(tree), 1, Len(data))
   /\ Scan(tree, arg.type, 0).st = "clean")
    => /\ (/\ data = Wire(tree)
           /\ \A j \in 1..Len(tree.entries) : tree.entries[j].key \notin MappedTags(arg.type))
            => (ret.st = "nil" /\ cur = arg.val)
       /\ \A j \in 1..Len(tree.entries) :
            LET a == 1 + Len(WireEntries(SubSeq(tree.entries, 1, j - 1)))
                       + Len(Wire(StrNode(tree.entries[j].key)))
                b == a + Len(Wire(tree.entries[j].val))
            IN (/\ tree.entries[j].key \notin MappedTags(arg.type)
                /\ a < Len(data) /\ Len(data) < b)
                 => (ret.st = "err" /\ ret.err.offset >= a /\ ret.err.offset <= Len(data))

\* C24: Marshal of an unsigned integer u emits 'i', the decimal digits of u
\* and 'e', without a sign, for every u of the type.
C24_UnsignedNeverNegative ==
  (pc # "marshal" /\ host.type.k \in UnsignedKinds)
    => mres = [out |-> <<integer>> \o NatDigits(host.val) \o <<terminator>>,
               err |-> NoEncErr]

\* C25: for a String node whose declared length L the host int can hold,
\* start + L does not wrap: stringIndices never hands back a limit below the
\* start, and a length exceeding the bytes after ':' is reported as
\* StringLengthOverrun.
C25_NoLengthWrap ==
  (pc = "done" /\ arg.ptr) =>
    \A doc \in StrDocs :
      data = doc[1] \o doc[2] \o doc[3] =>
        LET p == Len(doc[1])
            q == RunEnd(data, p)
            L == Decimal(Sub(data, p, q))
        IN /\ \A si \in {stringIndices(p, data)} : si.ok => si.limit >= si.start
           /\ (/\ L <= MaxInt
               /\ q < Len(data) /\ At(data, q) = colon
               /\ L > Len(data) - (q + 1)
               /\ IF doc[1] = <<>> THEN TRUE
                  ELSE IF doc[1] = <<list>> THEN arg.type.k = "slice"
                  ELSE arg.type.k = "struct")
                => ret = [st |-> "err",
                          err |-> Err("StringLengthOverrun", p, "string", NoType, L)]

\* C26: a successful Unmarshal is idempotent: the same call on the target
\* it left changes nothing; and a list decoded into a sequence leaves
\* exactly the decoded elements there.
C26_Idempotent ==
  (pc = "done" /\ ret.st = "nil") =>
    /\ \A u \in {Unmarshal(data, spare, Arg(TRUE, arg.type, cur))} :
         u.ret.st = "nil" /\ u.val = cur
    /\ (tree.k = "list" /\ data = Wire(tree) /\ arg.type = TSliceInt64)
         => cur = [j \in 1..Len(tree.elems) |-> tree.elems[j].n]

\* C27: when a mapped key occurs more than once, the member holds the value
\* of the last occurrence only (decoding into a zero record).
C27_LastOccurrenceOnly ==
  (/\ pc = "done" /\ ret.st = "nil"
   /\ arg.type = TRec /\ arg.val = Zero(TRec)
   /\ tree.k = "dict" /\ data = Wire(tree))
    => \A i, j \in 1..Len(tree.entries) :
         (/\ i < j
          /\ tree.entries[i].key = tree.entries[j].key
          /\ \A k \in (j + 1)..Len(tree.entries) : tree.entries[k].key # tree.entries[j].key)
           => /\ tree.entries[j].key = B(<<"x">>) => cur[1] = tree.entries[j].val.n
              /\ tree.entries[j].key = B(<<"y">>) =>
                   cur[2] = [m \in 1..Len(tree.entries[j].val.elems) |->
                               tree.entries[j].val.elems[m].n]

\* C28: whenever Marshal returns without error its output is one well-formed
\* node: it parses under the decoder's grammar, with nothing left over.
C28_OutputWellFormed ==
  (pc # "marshal" /\ mres.err = NoEncErr) =>
    \A r \in {unmarshalNext(Decoder(mres.out, <<>>, "noop"), 0, NilValue)} :
      r.st = "ok" /\ r.off = Len(mres.out)

\* C29: a dictionary emitted by Marshal has one entry per declared member,
\* the keys pairwise distinct and strictly ascending, each member's own
\* encoding under its own tag.
C29_OneEntryPerMember ==
  (pc # "marshal" /\ host.type.k = "struct" /\ mres.err = NoEncErr) =>
    \E q \in Perms(Len(host.val)) :
      /\ \A j \in 1..(Len(q) - 1) :
           LexLess(host.type.fields[q[j]].key, host.type.fields[q[j + 1]].key)
      /\ \A j \in 1..Len(q) :
           Marshal(HostValue(host.type.fields[q[j]].type, host.val[q[j]])).err = NoEncErr
      /\ mres.out =
           <<dictionary>>
             \o Concat([j \in 1..Len(q) |->
                  Wire(StrNode(host.type.fields[q[j]].key))
                    \o Marshal(HostValue(host.type.fields[q[j]].type, host.val[q[j]])).out])
             \o <<terminator>>

\* C30: no step of Unmarshal changes the input bytes, and a successful
\* Unmarshal of a dictionary into a record leaves every member whose tag is
\* no key of the input, and every member without a tag, as it was before the
\* call.
C30_FrameOfDictionary ==
  [][/\ data' = data
     /\ (/\ pc' = "done" /\ ret'.st = "nil"
         /\ arg.type.k = "struct"
         /\ tree.k = "dict" /\ data = Wire(tree))
          => \A j \in 1..Len(arg.type.fields) :
               (\/ ~arg.type.fields[j].hasBencode
                \/ \A k \in 1..Len(tree.entries) :
                     tree.entries[k].key # arg.type.fields[j].bencode)
                 => cur'[j] = arg.val[j]]_vars

\* C30 witness: "d1:xi1ee" was decoded into the record: X was set, Y and the
\* untagged U hold what they held.
C30_Witness ==
  /\ ret.st = "nil"
  /\ arg.type = TRec
  /\ tree = DictNode(<<Entry(B(<<"x">>), IntNode(1))>>) /\ data = Wire(tree)
  /\ cur = <<1, <<7>>, B(<<"c">>)>>

====
